---------------------------- MODULE Spec2Model ----------------------------
(***************************************************************************)
(* realtime-pals: the friend-request state machine (Sidebar.tsx and the    *)
(* friend_requests / friendships tables, policies and triggers of the      *)
(* migration), the conversation synchroniser (ChatArea.tsx and the         *)
(* messages table), and the presence heartbeat and the contact list of     *)
(* Chat.tsx (the profiles table and the change feeds of the publication).  *)
(*                                                                         *)
(* The store is the Postgres schema of the migration: a statement runs as  *)
(* one transaction, together with the triggers it fires; row-level         *)
(* security decides which rows a statement of a session may touch.  A      *)
(* session is a browser tab signed in as one account (auth.uid()).  Every  *)
(* `await` of a handler is a point where other sessions run, so a handler   *)
(* with several awaits is several actions.                                  *)
(*                                                                         *)
(* SpecRequests is the friend-request machine between two accounts, one of *)
(* them signed in twice; SpecMessages is the conversation synchroniser     *)
(* between three accounts, two of them signed in; in both the store        *)
(* answers every call.  SpecPresence is the heartbeat of three sessions of *)
(* two accounts.  SpecReads is one session's contact list and conversation *)
(* load with selects that may fail; SpecContacts is that contact list with *)
(* a store that answers every select.                                      *)
(***************************************************************************)
EXTENDS Integers, Sequences, FiniteSets

VARIABLES
    profiles,          \* public.profiles: the accounts that have signed up
    sessions,          \* the browser sessions that are open
    friend_requests,   \* public.friend_requests: a set of rows [id, sender_id, receiver_id, status]
    friendships,       \* public.friendships: number of rows per <<user_id, friend_id>>
    sendTask,          \* per session: sendFriendRequest between its two awaits
    messages,          \* public.messages: a set of rows [id, sender_id, receiver_id, content, read, created_at]
    now,               \* the store's clock, now()
    selectedFriend,    \* per session: Chat's selectedFriend (an account id, or "none" for null)
    view,              \* per session: ChatArea's messages state, as the ids of the rows it holds
    loads,             \* per session: the loadMessages calls of its effect runs, in order
    channel,           \* per session: the conversation channel it is subscribed to
    inbox,             \* per session: INSERT events of its channel not yet handled
    sending,           \* per session: sendMessage between its call and its insert's answer
    presence,          \* public.profiles: the columns status and last_seen of each account's row
    heartbeat,         \* per session: the interval of Chat's presence effect
    statusWrites,      \* per session: the updates of its profile row sent and not yet run
    friends,           \* per session: Chat's friends state
    friendRequests,    \* per session: Chat's friendRequests state
    reloads,           \* per session: its loadFriends and loadRequests calls that have not returned
    reloadCalls,       \* the loadFriends and loadRequests calls made so far, over all sessions
    contactChannels,   \* per session: its three contact-list channels
    notices,           \* per session: events of its contact-list channels not yet handled
    last               \* the last handler that completed: what it was called with and what it reported

requestVars == <<friend_requests, friendships, sendTask>>
chatVars == <<messages, now, selectedFriend, view, loads, channel, inbox, sending>>
presenceVars == <<presence, heartbeat, statusWrites>>
contactState == <<friends, friendRequests, reloads, reloadCalls, contactChannels>>
contactVars == <<contactState, notices>>
vars == <<profiles, sessions, requestVars, chatVars, presenceVars, contactVars, last>>

----------------------------------------------------------------------------
(* Accounts, sessions, directory *)

Users == {"alice", "bob", "carol"}

\* Browser sessions; alice has two.  Two sessions of one account also stand
\* for two overlapping calls of one session: the handlers share no state but
\* the store.
Sessions == {"a1", "a2", "b1", "c1"}

\* auth.uid() of a session.
UserOf(s) ==
    CASE s = "a1" -> "alice" [] s = "a2" -> "alice" [] s = "b1" -> "bob" [] s = "c1" -> "carol"

\* profiles.email, filled by handle_new_user from auth.users.
EmailOf(u) == CASE u = "alice" -> "alice@x.com" [] u = "bob" -> "bob@x.com" [] u = "carol" -> "carol@x.com"

\* What a user may type in the add-friend box.
SearchEmails == {EmailOf(u) : u \in Users} \cup {""}

Statuses == {"pending", "accepted", "rejected"}

NoTask == "idle"

----------------------------------------------------------------------------
(* The store *)

\* from('profiles').select('id').eq('email', e).single(): the id of the one
\* profile with that email, or no data.
ResolveEmail(e) ==
    LET hits == {u \in profiles : EmailOf(u) = e}
    IN  IF Cardinality(hits) = 1 THEN CHOOSE u \in hits : TRUE ELSE "none"

\* gen_random_uuid(): a key no row of the table has.
NewRequestId == Cardinality(friend_requests) + 1

RequestIds == {r.id : r \in friend_requests}

RequestById(rid) == CHOOSE r \in friend_requests : r.id = rid

\* The table without its UNIQUE(sender_id, receiver_id).
RequestUniqueViolation_NoConstraint(sender, receiver) == FALSE

\* UNIQUE(sender_id, receiver_id) on friend_requests: would a new row collide?
RequestUniqueViolation(sender, receiver) ==
    \E r \in friend_requests : r.sender_id = sender /\ r.receiver_id = receiver

\* Policy "Users can create friend requests": WITH CHECK (auth.uid() = sender_id).
CanInsertRequest(uid, row) == uid = row.sender_id

\* Policy "Users can update received requests": USING (auth.uid() = receiver_id).
CanUpdateRequest(uid, row) == uid = row.receiver_id

\* The table without its UNIQUE(user_id, friend_id): nothing for ON CONFLICT
\* to find.
FriendshipUniqueViolation_NoConstraint(fs, user, friend) == FALSE

\* UNIQUE(user_id, friend_id) on friendships: would a new row collide?
FriendshipUniqueViolation(fs, user, friend) == fs[<<user, friend>>] > 0

\* INSERT INTO friendships ... ON CONFLICT DO NOTHING
InsertFriendshipOnConflictDoNothing(fs, user, friend) ==
    IF FriendshipUniqueViolation(fs, user, friend)
    THEN fs
    ELSE [fs EXCEPT ![<<user, friend>>] = @ + 1]

\* create_friendship() with its second INSERT left out.
create_friendship_OneWay(new, fs) ==
    IF new.status = "accepted"
    THEN InsertFriendshipOnConflictDoNothing(fs, new.sender_id, new.receiver_id)
    ELSE fs

\* create_friendship(): both directions, for a row whose new status is accepted.
create_friendship(new, fs) ==
    IF new.status = "accepted"
    THEN InsertFriendshipOnConflictDoNothing(
             InsertFriendshipOnConflictDoNothing(fs, new.sender_id, new.receiver_id),
             new.receiver_id, new.sender_id)
    ELSE fs

\* The trigger fired BEFORE the statuses are compared the right way round:
\* WHEN (OLD.status = 'accepted' AND NEW.status = 'pending'), so never on accept.
on_friend_request_accepted_Swapped(old, new, fs) ==
    IF old.status = "accepted" /\ new.status = "pending"
    THEN create_friendship(new, fs)
    ELSE fs

\* Trigger on_friend_request_accepted: AFTER UPDATE ... FOR EACH ROW
\* WHEN (NEW.status = 'accepted' AND OLD.status = 'pending').
on_friend_request_accepted(old, new, fs) ==
    IF new.status = "accepted" /\ old.status = "pending"
    THEN create_friendship(new, fs)
    ELSE fs

\* The rows UPDATE friend_requests SET status = s WHERE id = rid touches for
\* a session of uid: the WHERE clause and the policy's USING clause.
RowsToUpdate(uid, rid) ==
    {r \in friend_requests : r.id = rid /\ CanUpdateRequest(uid, r)}

\* from('friend_requests').update({status}).eq('id', rid): the table after it.
UpdateRequestStatus(uid, rid, status) ==
    {IF r \in RowsToUpdate(uid, rid) THEN [r EXCEPT !.status = status] ELSE r
        : r \in friend_requests}

\* The friendships table after the row triggers of that update have run.
FriendshipsAfterUpdate(uid, rid, status) ==
    IF RowsToUpdate(uid, rid) = {}
    THEN friendships
    ELSE LET old == RequestById(rid)
         IN  on_friend_request_accepted(old, [old EXCEPT !.status = status], friendships)

\* The friendship rows between two accounts, in either direction.
EdgesBetween(fs, a, b) ==
    {p \in {<<a, b>>, <<b, a>>} : fs[p] > 0}

\* The three channels of Chat's contact-list effect, by the table they watch.
ContactChannels == {"friendships", "requests", "profiles"}

\* The change feed of a table that is in the publication supabase_realtime:
\* one event to every joined channel of that table whose filter names one of
\* the accounts (friendships: user_id=eq.me; friend_requests:
\* receiver_id=eq.me; profiles: no filter).
Notify(ns, table, users) ==
    [r \in Sessions |->
        IF r \in sessions /\ contactChannels[r][table] = "joined" /\ UserOf(r) \in users
        THEN Append(ns[r], table)
        ELSE ns[r]]

\* The events of the friendship rows a statement has inserted or deleted.
FriendshipNotices(ns, before, after) ==
    Notify(ns, "friendships", {p[1] : p \in {q \in Users \X Users : after[q] # before[q]}})

\* The events of the request rows a statement has inserted or updated.
RequestNotices(ns, rows) ==
    Notify(ns, "requests", {r.receiver_id : r \in rows})

----------------------------------------------------------------------------
(* What a handler reports (sonner toasts) *)

Toast(kind, text) == [kind |-> kind, text |-> text]

NoToast == Toast("none", "")

\* op: the handler; by: the account of the session that ran it; arg: what it
\* was called with; was: the status of the row it addressed, before.
Report(op, s, arg, was, toast) ==
    [op |-> op, by |-> IF s \in Sessions THEN UserOf(s) ELSE "none",
     arg |-> arg, was |-> was, toast |-> toast]

StatusOf(rid) ==
    IF rid \in RequestIds THEN RequestById(rid).status ELSE "none"

----------------------------------------------------------------------------
(* Sidebar.sendFriendRequest *)

\* The handler without `if (profiles.id === currentUserId)`.
SendLookup_NoSelfCheck(s, email) ==
    /\ sendTask[s] = NoTask
    /\ LET found == ResolveEmail(email)
       IN  IF email = ""
           THEN /\ last' = Report("send", s, "none", "none", NoToast)
                /\ UNCHANGED sendTask
           ELSE IF found = "none"
           THEN /\ last' = Report("send", s, "none", "none", Toast("error", "User not found"))
                /\ UNCHANGED sendTask
           ELSE /\ sendTask' = [sendTask EXCEPT ![s] = found]
                /\ UNCHANGED last
    /\ UNCHANGED <<profiles, sessions, presenceVars, contactVars, friend_requests, friendships, chatVars>>

\* Up to the first await's answer: the directory lookup and the two checks.
SendLookup(s, email) ==
    /\ sendTask[s] = NoTask
    /\ LET found == ResolveEmail(email)
       IN  IF email = ""
           THEN /\ last' = Report("send", s, "none", "none", NoToast)
                /\ UNCHANGED sendTask
           ELSE IF found = "none"
           THEN /\ last' = Report("send", s, "none", "none", Toast("error", "User not found"))
                /\ UNCHANGED sendTask
           ELSE IF found = UserOf(s)
           THEN /\ last' = Report("send", s, found, "none", Toast("error", "You cannot add yourself"))
                /\ UNCHANGED sendTask
           ELSE /\ sendTask' = [sendTask EXCEPT ![s] = found]
                /\ UNCHANGED last
    /\ UNCHANGED <<profiles, sessions, presenceVars, contactVars, friend_requests, friendships, chatVars>>

\* The row the pending insert of session s collides with, if any.
ExistingRequest(sender, receiver) ==
    {r \in friend_requests : r.sender_id = sender /\ r.receiver_id = receiver}

\* The insert and what the handler makes of its answer.
SendInsert(s) ==
    /\ sendTask[s] # NoTask
    /\ LET row == [id |-> NewRequestId, sender_id |-> UserOf(s),
                   receiver_id |-> sendTask[s], status |-> "pending"]
           was == IF ExistingRequest(row.sender_id, row.receiver_id) = {}
                  THEN "none"
                  ELSE (CHOOSE r \in ExistingRequest(row.sender_id, row.receiver_id) : TRUE).status
       IN  IF ~CanInsertRequest(UserOf(s), row)
           THEN /\ last' = Report("send", s, row.receiver_id, was, Toast("error", "row-level security"))
                /\ UNCHANGED friend_requests
           ELSE IF RequestUniqueViolation(row.sender_id, row.receiver_id)
           THEN \* error.code === '23505'
                /\ last' = Report("send", s, row.receiver_id, was, Toast("error", "Friend request already sent"))
                /\ UNCHANGED friend_requests
           ELSE /\ friend_requests' = friend_requests \cup {row}
                /\ last' = Report("send", s, row.receiver_id, was, Toast("success", "Friend request sent!"))
    /\ notices' = RequestNotices(notices, friend_requests' \ friend_requests)
    /\ sendTask' = [sendTask EXCEPT ![s] = NoTask]
    /\ UNCHANGED <<profiles, sessions, presenceVars, contactState, friendships, chatVars>>

----------------------------------------------------------------------------
(* Sidebar.acceptRequest / rejectRequest *)

\* update({status}).eq('id', requestId) and the toast.  The update has no
\* error when the policy or the id leaves it no row to touch.
SetRequestStatus(op, s, rid, status, text) ==
    /\ friend_requests' = UpdateRequestStatus(UserOf(s), rid, status)
    /\ friendships' = FriendshipsAfterUpdate(UserOf(s), rid, status)
    /\ notices' = FriendshipNotices(RequestNotices(notices, RowsToUpdate(UserOf(s), rid)),
                                    friendships, friendships')
    /\ last' = Report(op, s, rid, StatusOf(rid), Toast("success", text))
    /\ UNCHANGED <<profiles, sessions, presenceVars, contactState, sendTask, chatVars>>

\* requestId is whatever the caller passes; the sidebar passes the ids of its
\* friendRequests list, which may be out of date.
acceptRequest(s, rid) ==
    SetRequestStatus("accept", s, rid, "accepted", "Friend request accepted!")

rejectRequest(s, rid) ==
    SetRequestStatus("reject", s, rid, "rejected", "Friend request rejected")

----------------------------------------------------------------------------
(* Statements the friendships policies grant a signed-in user directly *)

\* Policy "Users can create friendships": FOR INSERT WITH CHECK (auth.uid() = user_id).
CanInsertFriendship(uid, user, friend) == uid = user

\* The policy with USING (auth.uid() = user_id OR auth.uid() = friend_id), as
\* the SELECT policy of the table has it.
CanDeleteFriendship_EitherSide(uid, user, friend) == uid = user \/ uid = friend

\* Policy "Users can delete their friendships": FOR DELETE USING (auth.uid() = user_id).
CanDeleteFriendship(uid, user, friend) == uid = user

InsertFriendship(s, user, friend) ==
    /\ IF CanInsertFriendship(UserOf(s), user, friend)
          /\ ~FriendshipUniqueViolation(friendships, user, friend)
       THEN /\ friendships' = [friendships EXCEPT ![<<user, friend>>] = @ + 1]
            /\ last' = Report("insert_friendship", s, <<user, friend>>, "none", Toast("success", ""))
       ELSE /\ UNCHANGED friendships
            /\ last' = Report("insert_friendship", s, <<user, friend>>, "none", Toast("error", "rejected"))
    /\ notices' = FriendshipNotices(notices, friendships, friendships')
    /\ UNCHANGED <<profiles, sessions, presenceVars, contactState, friend_requests, sendTask, chatVars>>

\* DELETE FROM friendships WHERE user_id = user AND friend_id = friend: the
\* rows the policy hides are not deleted, and that is no error.
DeleteFriendship(s, user, friend) ==
    /\ friendships' =
           IF CanDeleteFriendship(UserOf(s), user, friend)
           THEN [friendships EXCEPT ![<<user, friend>>] = 0]
           ELSE friendships
    /\ last' = Report("delete_friendship", s, <<user, friend>>,
                      IF friendships[<<user, friend>>] > 0 THEN "edge" ELSE "none",
                      Toast("success", ""))
    /\ notices' = FriendshipNotices(notices, friendships, friendships')
    /\ UNCHANGED <<profiles, sessions, presenceVars, contactState, friend_requests, sendTask, chatVars>>

----------------------------------------------------------------------------
(* The messages table *)

\* The rows the table may come to hold.
MaxMessages == 3

\* The runs of ChatArea's effect, over all sessions.
MaxSelects == 2

\* gen_random_uuid(): a key no row of the table has (rows are never deleted).
NewMessageId == Cardinality(messages) + 1

MessageById(id) == CHOOSE m \in messages : m.id = id

\* Policy "Users can view their messages": USING (auth.uid() = sender_id OR auth.uid() = receiver_id).
CanSelectMessage(uid, m) == uid = m.sender_id \/ uid = m.receiver_id

\* Policy "Users can send messages": WITH CHECK (auth.uid() = sender_id).
CanInsertMessage(uid, m) == uid = m.sender_id

\* Policy "Users can update received messages": USING (auth.uid() = receiver_id).
CanUpdateMessage(uid, m) == uid = m.receiver_id

\* or(and(sender_id.eq.a,receiver_id.eq.b),and(sender_id.eq.b,receiver_id.eq.a))
ConversationFilter(m, a, b) ==
    \/ m.sender_id = a /\ m.receiver_id = b
    \/ m.sender_id = b /\ m.receiver_id = a

\* The select without its .order(): the rows in whatever order the store holds them.
OrderByCreatedAt_Unordered(rows) ==
    {sq \in [1..Cardinality(rows) -> {m.id : m \in rows}] :
        \A i, j \in DOMAIN sq : i # j => sq[i] # sq[j]}

\* .order('created_at', { ascending: true }): the orders in which the store
\* may return the rows; rows of one timestamp come in any order.
OrderByCreatedAt(rows) ==
    {sq \in [1..Cardinality(rows) -> {m.id : m \in rows}] :
        /\ \A i, j \in DOMAIN sq : i # j => sq[i] # sq[j]
        /\ \A i, j \in DOMAIN sq :
              i < j => MessageById(sq[i]).created_at <= MessageById(sq[j]).created_at}

\* from('messages').select('*').or(filter).order(...): what a session of uid may get.
SelectConversation(uid, a, b) ==
    OrderByCreatedAt({m \in messages : CanSelectMessage(uid, m) /\ ConversationFilter(m, a, b)})

\* update({ read: !read }): the flag flipped instead of set.
MarkRead_Toggle(m) == [m EXCEPT !.read = ~@]

\* update({ read: true }): the row with the new value.
MarkRead(m) == [m EXCEPT !.read = TRUE]

\* from('messages').update({ read: true }).in('id', ids): the table after it.
UpdateRead(uid, ids) ==
    {IF m.id \in ids /\ CanUpdateMessage(uid, m) THEN MarkRead(m) ELSE m : m \in messages}

\* A PostgREST query builder sends its request from then(), which `await`
\* calls; a builder that is built and dropped sends nothing.
Sent(awaited, after, before) == IF awaited THEN after ELSE before

----------------------------------------------------------------------------
(* ChatArea *)

\* What may be in the message box: text of spaces and letters.
MessageTexts == {<<>>, <<" ">>, <<"h">>, <<" ", "h", " ">>}

RECURSIVE TrimStart(_)
TrimStart(t) == IF t # <<>> /\ Head(t) = " " THEN TrimStart(Tail(t)) ELSE t

RECURSIVE TrimEnd(_)
TrimEnd(t) ==
    IF t # <<>> /\ t[Len(t)] = " " THEN TrimEnd(SubSeq(t, 1, Len(t) - 1)) ELSE t

\* String.prototype.trim
Trim(t) == TrimEnd(TrimStart(t))

NoChannel == [friend |-> "none", joined |-> FALSE]

NoSend == [receiver_id |-> "none", content |-> <<>>]

LoadTask(friend, pc, data, unread) ==
    [friend |-> friend, pc |-> pc, data |-> data, unread |-> unread]

\* The runs of ChatArea's effect so far, over all sessions.
EffectRuns == {<<s, i>> \in Sessions \X (1..MaxSelects) : i \in DOMAIN loads[s]}

\* Sidebar's onSelectFriend and the effect run it causes: the clean-up of the
\* run before (removeChannel), then loadMessages() up to its first await and
\* the new channel's subscribe().  The messages on screen are kept.  f is an
\* entry of the friends list; the same friend can be selected again, as each
\* reload of the list makes new Profile objects.
\*
\* removeChannel() returns a promise the clean-up does not wait for: it sends
\* the leave, and from then on no new event is passed to the old channel.  The
\* events the change feed had passed on before are on their way, and neither
\* the callback nor the clean-up has a flag that would make the callback of
\* the old channel ignore them: they stay in the inbox.  The load of the run
\* before is not cancelled either.
SelectFriend(s, f) ==
    /\ Cardinality(EffectRuns) < MaxSelects
    /\ f # UserOf(s)
    /\ selectedFriend' = [selectedFriend EXCEPT ![s] = f]
    /\ loads' = [loads EXCEPT ![s] = Append(@, LoadTask(f, "query", <<>>, {}))]
    /\ channel' = [channel EXCEPT ![s] = [friend |-> f, joined |-> FALSE]]
    /\ UNCHANGED <<profiles, sessions, presenceVars, contactVars, requestVars, messages, now, view, inbox, sending, last>>

\* The channel's join is acknowledged: events committed from now on reach it.
ChannelJoined(s) ==
    /\ channel[s] # NoChannel
    /\ ~channel[s].joined
    /\ channel' = [channel EXCEPT ![s].joined = TRUE]
    /\ UNCHANGED <<profiles, sessions, presenceVars, contactVars, requestVars, messages, now, selectedFriend, view,
                   loads, inbox, sending, last>>

\* data.filter(m => m.receiver_id === currentUserId && !m.read).map(m => m.id)
UnreadIds(uid, data) ==
    {data[i] : i \in {j \in DOMAIN data :
                         MessageById(data[j]).receiver_id = uid /\ ~MessageById(data[j]).read}}

\* loadMessages: the store runs the select.
LoadQuery(s, i) ==
    /\ loads[s][i].pc = "query"
    /\ \E data \in SelectConversation(UserOf(s), UserOf(s), loads[s][i].friend) :
          loads' = [loads EXCEPT ![s][i] =
                        LoadTask(@.friend, "response", data, UnreadIds(UserOf(s), data))]
    /\ UNCHANGED <<profiles, sessions, presenceVars, contactVars, requestVars, messages, now, selectedFriend, view,
                   channel, inbox, sending, last>>

\* loadMessages: the answer arrives: setMessages(data), and the update of the
\* unread rows is sent if there are any.
LoadResponse(s, i) ==
    /\ loads[s][i].pc = "response"
    /\ view' = [view EXCEPT ![s] = loads[s][i].data]
    /\ loads' = [loads EXCEPT ![s][i].pc = IF loads[s][i].unread = {} THEN "done" ELSE "update"]
    /\ UNCHANGED <<profiles, sessions, presenceVars, contactVars, requestVars, messages, now, selectedFriend,
                   channel, inbox, sending, last>>

\* loadMessages: the store runs the awaited update and the call returns.
LoadMarkRead(s, i) ==
    /\ loads[s][i].pc = "update"
    /\ messages' = Sent(TRUE, UpdateRead(UserOf(s), loads[s][i].unread), messages)
    /\ loads' = [loads EXCEPT ![s][i] = LoadTask(@.friend, "done", @.data, {})]
    /\ UNCHANGED <<profiles, sessions, presenceVars, contactVars, requestVars, now, selectedFriend, view,
                   channel, inbox, sending, last>>

\* The channel's postgres_changes filter, and the select policy the change
\* feed applies for the subscriber.
ChannelGets(s, m) ==
    /\ channel[s] # NoChannel
    /\ channel[s].joined
    /\ CanSelectMessage(UserOf(s), m)
    /\ ConversationFilter(m, UserOf(s), channel[s].friend)

\* The INSERT callback of the session's channel, the one it has now or one it
\* has left: append the row, whatever the list holds; the update that would
\* mark it read is built and never awaited.
HandleInsert(s) ==
    /\ inbox[s] # <<>>
    /\ LET m == MessageById(Head(inbox[s]))
       IN  /\ view' = [view EXCEPT ![s] = Append(@, m.id)]
           /\ messages' =
                  IF m.receiver_id = UserOf(s)
                  THEN Sent(FALSE, UpdateRead(UserOf(s), {m.id}), messages)
                  ELSE messages
    /\ inbox' = [inbox EXCEPT ![s] = Tail(@)]
    /\ UNCHANGED <<profiles, sessions, presenceVars, contactVars, requestVars, now, selectedFriend, loads, channel, sending, last>>

InFlightSends == {s \in sessions : sending[s] # NoSend}

\* The guard with !newMessage in place of !newMessage.trim().
SendBlocked_NoTrim(s, text) ==
    text = <<>> \/ selectedFriend[s] = "none" \/ sending[s] # NoSend

\* if (!newMessage.trim() || !selectedFriend || sending) return;
SendBlocked(s, text) ==
    Trim(text) = <<>> \/ selectedFriend[s] = "none" \/ sending[s] # NoSend

\* sendMessage up to its await: the guards, setSending(true) and the insert
\* with the friend selected at the time of the call.  A call the guards turn
\* away returns at once, reporting nothing.
sendMessage(s, text) ==
    /\ Cardinality(messages) + Cardinality(InFlightSends) < MaxMessages
    /\ IF SendBlocked(s, text)
       THEN /\ last' = Report("send_message", s,
                             IF Trim(text) = <<>> THEN "blank" ELSE "none", "none", NoToast)
            /\ UNCHANGED sending
       ELSE /\ sending' = [sending EXCEPT ![s] =
                                [receiver_id |-> selectedFriend[s], content |-> Trim(text)]]
            /\ UNCHANGED last
    /\ UNCHANGED <<profiles, sessions, presenceVars, contactVars, requestVars, messages, now, selectedFriend, view,
                   loads, channel, inbox>>

\* The store runs the insert, the change feed passes it on, and the answer
\* ends sendMessage.  created_at is now(): the clock has moved on since the
\* row before, or it has not.
MessageInsert(s) ==
    /\ sending[s] # NoSend
    /\ \E t \in {now, now + 1} :
          /\ now' = t
          /\ LET row == [id |-> NewMessageId, sender_id |-> UserOf(s),
                         receiver_id |-> sending[s].receiver_id,
                         content |-> sending[s].content, read |-> FALSE, created_at |-> t]
             IN  IF CanInsertMessage(UserOf(s), row)
                 THEN /\ messages' = messages \cup {row}
                      /\ inbox' = [r \in Sessions |->
                                      IF r \in sessions /\ ChannelGets(r, row)
                                      THEN Append(inbox[r], row.id)
                                      ELSE inbox[r]]
                      /\ UNCHANGED last
                 ELSE /\ UNCHANGED <<messages, inbox>>
                      /\ last' = Report("send_message", s, "none", "none",
                                        Toast("error", "row-level security"))
    /\ sending' = [sending EXCEPT ![s] = NoSend]
    /\ UNCHANGED <<profiles, sessions, presenceVars, contactVars, requestVars, selectedFriend, view, loads, channel>>

----------------------------------------------------------------------------
(* Chat: presence *)

\* The readings of the clock the presence writes may carry.
MaxClock == 2

\* Time passes.
Tick ==
    /\ now < MaxClock
    /\ now' = now + 1
    /\ UNCHANGED <<profiles, sessions, requestVars, messages, selectedFriend, view, loads,
                   channel, inbox, sending, presenceVars, contactVars, last>>

\* update({ status, last_seen: new Date().toISOString() }).eq('id', user.id)
StatusWrite(status, t) == [status |-> status, last_seen |-> t]

\* Policy "Users can update own profile": USING (auth.uid() = id).
CanUpdateProfile(uid, id) == uid = id

\* updateStatus(): the update is awaited, so it is sent.
updateStatus(s) ==
    Sent(TRUE, statusWrites[s] \cup {StatusWrite("online", now)}, statusWrites[s])

\* The presence effect, run when the session has its user: updateStatus()
\* and setInterval(updateStatus, 30000).
PresenceEffect(s) ==
    /\ heartbeat[s] = "unset"
    /\ heartbeat' = [heartbeat EXCEPT ![s] = "set"]
    /\ statusWrites' = [statusWrites EXCEPT ![s] = updateStatus(s)]
    /\ UNCHANGED <<profiles, sessions, requestVars, chatVars, presence, contactVars, last>>

\* The interval fires.
Heartbeat(s) ==
    /\ heartbeat[s] = "set"
    /\ statusWrites' = [statusWrites EXCEPT ![s] = updateStatus(s)]
    /\ UNCHANGED <<profiles, sessions, requestVars, chatVars, presence, heartbeat, contactVars, last>>

\* The store runs an update a session has sent; the profiles channels hear of
\* the row's change.  A request that is under way is not taken back by the
\* clean-up of the effect that sent it.
PresenceWrite(s) ==
    /\ \E w \in statusWrites[s] :
          /\ presence' = [u \in Users |->
                             IF u = UserOf(s) /\ CanUpdateProfile(UserOf(s), u)
                             THEN w
                             ELSE presence[u]]
          /\ statusWrites' = [statusWrites EXCEPT ![s] = @ \ {w}]
    /\ notices' = Notify(notices, "profiles", Users)
    /\ UNCHANGED <<profiles, sessions, requestVars, chatVars, heartbeat, contactState, last>>

\* A clean-up whose update to offline is awaited, and so sent.
PresenceCleanup_Awaited(s) ==
    /\ heartbeat[s] = "set"
    /\ heartbeat' = [heartbeat EXCEPT ![s] = "cleared"]
    /\ statusWrites' = [statusWrites EXCEPT ![s] =
                            Sent(TRUE, @ \cup {StatusWrite("offline", now)}, @)]
    /\ UNCHANGED <<profiles, sessions, requestVars, chatVars, presence, contactVars, last>>

\* The effect's clean-up, on unmount or sign-out: clearInterval, and the
\* update to offline, which is built and never awaited.
PresenceCleanup(s) ==
    /\ heartbeat[s] = "set"
    /\ heartbeat' = [heartbeat EXCEPT ![s] = "cleared"]
    /\ statusWrites' = [statusWrites EXCEPT ![s] =
                            Sent(FALSE, @ \cup {StatusWrite("offline", now)}, @)]
    /\ UNCHANGED <<profiles, sessions, requestVars, chatVars, presence, contactVars, last>>

----------------------------------------------------------------------------
(* Chat: the contact list *)

\* The loadFriends and loadRequests calls, over all sessions.
MaxReloads == 4

\* The events that may wait in a session's contact-list channels when a
\* further statement is run.
MaxNotices == 2

NoticesBelow(n) == \A r \in sessions : Len(notices[r]) < n

\* A row of profiles as select('*') returns it.
ProfileRow(u) ==
    [id |-> u, email |-> EmailOf(u), status |-> presence[u].status,
     last_seen |-> presence[u].last_seen]

\* Policy "Users can view their friendships": USING (auth.uid() = user_id OR auth.uid() = friend_id).
CanSelectFriendship(uid, user, friend) == uid = user \/ uid = friend

\* Policy "Users can view their friend requests": USING (auth.uid() = sender_id OR auth.uid() = receiver_id).
CanSelectRequest(uid, r) == uid = r.sender_id \/ uid = r.receiver_id

\* Policy "Users can view all profiles": USING (true).
CanSelectProfile(uid, u) == TRUE

\* A call of loadFriends or loadRequests: kind says which, pc which await it
\* is at, data what the select before has returned.
ReloadTask(kind, pc, data) == [kind |-> kind, pc |-> pc, data |-> data]

\* loadFriends() up to its first await.
loadFriends(rs) == rs \cup {ReloadTask("friends", "query", {})}

\* loadRequests() up to its await.
loadRequests(rs) == rs \cup {ReloadTask("requests", "query", {})}

\* The contact-list effect, run when the session has its user: loadFriends(),
\* loadRequests() and the subscribe() of the three channels.
ContactsEffect(s) ==
    /\ \A c \in ContactChannels : contactChannels[s][c] = "none"
    /\ reloadCalls + 2 <= MaxReloads
    /\ reloads' = [reloads EXCEPT ![s] = loadRequests(loadFriends(@))]
    /\ reloadCalls' = reloadCalls + 2
    /\ contactChannels' = [contactChannels EXCEPT ![s] = [c \in ContactChannels |-> "joining"]]
    /\ UNCHANGED <<profiles, sessions, requestVars, chatVars, presenceVars, friends,
                   friendRequests, notices, last>>

\* The join of one of the channels is acknowledged: changes committed from
\* now on reach it.
ContactChannelJoined(s, c) ==
    /\ contactChannels[s][c] = "joining"
    /\ contactChannels' = [contactChannels EXCEPT ![s][c] = "joined"]
    /\ UNCHANGED <<profiles, sessions, requestVars, chatVars, presenceVars, friends,
                   friendRequests, reloads, reloadCalls, notices, last>>

\* The callbacks of the channels: () => loadFriends() for friendships and
\* profiles, () => loadRequests() for friend_requests.
HandleNotice(s) ==
    /\ notices[s] # <<>>
    /\ reloadCalls < MaxReloads
    /\ reloads' = [reloads EXCEPT ![s] =
                      IF Head(notices[s]) = "requests" THEN loadRequests(@) ELSE loadFriends(@)]
    /\ reloadCalls' = reloadCalls + 1
    /\ notices' = [notices EXCEPT ![s] = Tail(@)]
    /\ UNCHANGED <<profiles, sessions, requestVars, chatVars, presenceVars, friends,
                   friendRequests, contactChannels, last>>

\* from('friendships').select('friend_id').eq('user_id', user.id)
SelectFriendIds(uid) ==
    {f \in Users : friendships[<<uid, f>>] > 0 /\ CanSelectFriendship(uid, uid, f)}

\* from('profiles').select('*').in('id', friendIds)
SelectProfiles(uid, ids) ==
    {ProfileRow(u) : u \in {x \in profiles : x \in ids /\ CanSelectProfile(uid, x)}}

\* from('friend_requests').select(...).eq('receiver_id', user.id).eq('status', 'pending')
SelectPendingRequests(uid) ==
    {r \in friend_requests :
        r.receiver_id = uid /\ r.status = "pending" /\ CanSelectRequest(uid, r)}

\* loadFriends: the store runs the first select; its answer has data, so the
\* second select is sent.
FriendshipsQuery(s, task) ==
    /\ task \in reloads[s]
    /\ task.kind = "friends" /\ task.pc = "query"
    /\ reloads' = [reloads EXCEPT ![s] =
                      (@ \ {task}) \cup {ReloadTask("friends", "profiles", SelectFriendIds(UserOf(s)))}]
    /\ UNCHANGED <<profiles, sessions, requestVars, chatVars, presenceVars, friends,
                   friendRequests, reloadCalls, contactChannels, notices, last>>

\* loadFriends: the store runs the second select.
ProfilesQuery(s, task) ==
    /\ task \in reloads[s]
    /\ task.kind = "friends" /\ task.pc = "profiles"
    /\ reloads' = [reloads EXCEPT ![s] =
                      (@ \ {task}) \cup
                          {ReloadTask("friends", "answer", SelectProfiles(UserOf(s), task.data))}]
    /\ UNCHANGED <<profiles, sessions, requestVars, chatVars, presenceVars, friends,
                   friendRequests, reloadCalls, contactChannels, notices, last>>

\* loadFriends: the answer arrives: setFriends(profilesData).
FriendsAnswer(s, task) ==
    /\ task \in reloads[s]
    /\ task.kind = "friends" /\ task.pc = "answer"
    /\ friends' = [friends EXCEPT ![s] = task.data]
    /\ reloads' = [reloads EXCEPT ![s] = @ \ {task}]
    /\ UNCHANGED <<profiles, sessions, requestVars, chatVars, presenceVars,
                   friendRequests, reloadCalls, contactChannels, notices, last>>

\* loadRequests: the store runs the select.
RequestsQuery(s, task) ==
    /\ task \in reloads[s]
    /\ task.kind = "requests" /\ task.pc = "query"
    /\ reloads' = [reloads EXCEPT ![s] =
                      (@ \ {task}) \cup
                          {ReloadTask("requests", "answer", SelectPendingRequests(UserOf(s)))}]
    /\ UNCHANGED <<profiles, sessions, requestVars, chatVars, presenceVars, friends,
                   friendRequests, reloadCalls, contactChannels, notices, last>>

\* loadRequests: the answer arrives: setFriendRequests(data).
RequestsAnswer(s, task) ==
    /\ task \in reloads[s]
    /\ task.kind = "requests" /\ task.pc = "answer"
    /\ friendRequests' = [friendRequests EXCEPT ![s] = task.data]
    /\ reloads' = [reloads EXCEPT ![s] = @ \ {task}]
    /\ UNCHANGED <<profiles, sessions, requestVars, chatVars, presenceVars, friends,
                   reloadCalls, contactChannels, notices, last>>

\* A select of loadFriends or loadRequests fails, in the store or on the way:
\* the client answers { data: null, error } and throws nothing; the call
\* reads only data, finds it null and returns.
ReloadFails(s, task) ==
    /\ task \in reloads[s]
    /\ task.pc \in {"query", "profiles"}
    /\ reloads' = [reloads EXCEPT ![s] = @ \ {task}]
    /\ UNCHANGED <<profiles, sessions, requestVars, chatVars, presenceVars, friends,
                   friendRequests, reloadCalls, contactChannels, notices, last>>

\* The select of loadMessages fails: { data: null, error }; the call reads
\* only data, finds it null and returns.
LoadFails(s, i) ==
    /\ loads[s][i].pc = "query"
    /\ loads' = [loads EXCEPT ![s][i] = LoadTask(@.friend, "done", <<>>, {})]
    /\ UNCHANGED <<profiles, sessions, requestVars, messages, now, selectedFriend, view,
                   channel, inbox, sending, presenceVars, contactVars, last>>

----------------------------------------------------------------------------

NoReport == Report("none", "none", "none", "none", NoToast)

\* The sessions before their first step.
InitClient ==
    /\ now = 0
    /\ selectedFriend = [s \in Sessions |-> "none"]
    /\ view = [s \in Sessions |-> <<>>]
    /\ loads = [s \in Sessions |-> <<>>]
    /\ channel = [s \in Sessions |-> NoChannel]
    /\ inbox = [s \in Sessions |-> <<>>]
    /\ sending = [s \in Sessions |-> NoSend]
    /\ presence = [u \in Users |-> [status |-> "offline", last_seen |-> 0]]
    /\ heartbeat = [s \in Sessions |-> "unset"]
    /\ statusWrites = [s \in Sessions |-> {}]
    /\ friends = [s \in Sessions |-> {}]
    /\ friendRequests = [s \in Sessions |-> {}]
    /\ reloads = [s \in Sessions |-> {}]
    /\ reloadCalls = 0
    /\ contactChannels = [s \in Sessions |-> [c \in ContactChannels |-> "none"]]
    /\ notices = [s \in Sessions |-> <<>>]
    /\ last = NoReport

InitStore ==
    /\ friend_requests = {}
    /\ friendships = [p \in Users \X Users |-> 0]
    /\ sendTask = [s \in Sessions |-> NoTask]
    /\ InitClient

\* alice and bob have signed up; alice is signed in twice.
InitRequests ==
    /\ profiles = {"alice", "bob"}
    /\ sessions = {"a1", "a2", "b1"}
    /\ messages = {}
    /\ InitStore

NextRequests ==
    \/ \E s \in sessions, e \in SearchEmails : SendLookup(s, e)
    \/ \E s \in sessions : SendInsert(s)
    \/ \E s \in sessions, rid \in RequestIds : acceptRequest(s, rid)
    \/ \E s \in sessions, rid \in RequestIds : rejectRequest(s, rid)
    \/ \E s \in sessions, u \in profiles, f \in profiles : InsertFriendship(s, u, f)
    \/ \E s \in sessions, u \in profiles, f \in profiles : DeleteFriendship(s, u, f)

SpecRequests == InitRequests /\ [][NextRequests]_vars

\* What carol has sent alice from a session she has closed since.
EarlierMessages ==
    {[id |-> 1, sender_id |-> "carol", receiver_id |-> "alice",
      content |-> <<"h">>, read |-> FALSE, created_at |-> 0]}

\* alice, bob and carol have signed up; alice and bob are signed in, and
\* carol's message is waiting for alice.
InitMessages ==
    /\ profiles = Users
    /\ sessions = {"a1", "b1"}
    /\ messages = EarlierMessages
    /\ InitStore

NextMessages ==
    \/ \E s \in sessions, f \in profiles : SelectFriend(s, f)
    \/ \E s \in sessions : ChannelJoined(s)
    \/ \E s \in sessions, i \in 1..MaxSelects : i \in DOMAIN loads[s] /\ LoadQuery(s, i)
    \/ \E s \in sessions, i \in 1..MaxSelects : i \in DOMAIN loads[s] /\ LoadResponse(s, i)
    \/ \E s \in sessions, i \in 1..MaxSelects : i \in DOMAIN loads[s] /\ LoadMarkRead(s, i)
    \/ \E s \in sessions : HandleInsert(s)
    \/ \E s \in sessions, text \in MessageTexts : sendMessage(s, text)
    \/ \E s \in sessions : MessageInsert(s)

SpecMessages == InitMessages /\ [][NextMessages]_vars

\* alice and bob have signed up; alice opens two sessions and bob one.
InitPresence ==
    /\ profiles = {"alice", "bob"}
    /\ sessions = {"a1", "a2", "b1"}
    /\ messages = {}
    /\ InitStore

NextPresence ==
    \/ Tick
    \/ \E s \in sessions : PresenceEffect(s)
    \/ \E s \in sessions : Heartbeat(s)
    \/ \E s \in sessions : PresenceWrite(s)
    \/ \E s \in sessions : PresenceCleanup(s)

SpecPresence == InitPresence /\ [][NextPresence]_vars

\* What bob has sent alice from a session he has closed since.
EarlierMessageOfBob ==
    {[id |-> 1, sender_id |-> "bob", receiver_id |-> "alice",
      content |-> <<"h">>, read |-> FALSE, created_at |-> 0]}

\* What bob has asked alice from that session.
EarlierRequestOfBob ==
    {[id |-> 1, sender_id |-> "bob", receiver_id |-> "alice", status |-> "pending"]}

\* alice and bob have signed up and alice opens a session; bob's request and
\* bob's message are waiting for her.
InitReads ==
    /\ profiles = {"alice", "bob"}
    /\ sessions = {"a1"}
    /\ messages = EarlierMessageOfBob
    /\ friend_requests = EarlierRequestOfBob
    /\ friendships = [p \in Users \X Users |-> 0]
    /\ sendTask = [s \in Sessions |-> NoTask]
    /\ InitClient

\* The reads of a session, with selects that may fail, and the accept that
\* changes what they read.
NextReads ==
    \/ \E s \in sessions, rid \in RequestIds : NoticesBelow(MaxNotices) /\ acceptRequest(s, rid)
    \/ \E s \in sessions : ContactsEffect(s)
    \/ \E s \in sessions, c \in ContactChannels : ContactChannelJoined(s, c)
    \/ \E s \in sessions : HandleNotice(s)
    \/ \E s \in sessions : \E task \in reloads[s] : FriendshipsQuery(s, task)
    \/ \E s \in sessions : \E task \in reloads[s] : ProfilesQuery(s, task)
    \/ \E s \in sessions : \E task \in reloads[s] : FriendsAnswer(s, task)
    \/ \E s \in sessions : \E task \in reloads[s] : RequestsQuery(s, task)
    \/ \E s \in sessions : \E task \in reloads[s] : RequestsAnswer(s, task)
    \/ \E s \in sessions : \E task \in reloads[s] : ReloadFails(s, task)
    \/ \E s \in sessions, f \in profiles : SelectFriend(s, f)
    \/ \E s \in sessions, i \in 1..MaxSelects : i \in DOMAIN loads[s] /\ LoadQuery(s, i)
    \/ \E s \in sessions, i \in 1..MaxSelects : i \in DOMAIN loads[s] /\ LoadFails(s, i)
    \/ \E s \in sessions, i \in 1..MaxSelects : i \in DOMAIN loads[s] /\ LoadResponse(s, i)
    \/ \E s \in sessions, i \in 1..MaxSelects : i \in DOMAIN loads[s] /\ LoadMarkRead(s, i)

SpecReads == InitReads /\ [][NextReads]_vars

\* The Accept button of a request of the list the session shows.
ClickAccept(s) == \E r \in friendRequests[s] : acceptRequest(s, r.id)

\* alice's session with its contact list, bob's request waiting for her; the
\* store answers every select.
NextContacts ==
    \/ \E s \in sessions : NoticesBelow(MaxNotices) /\ ClickAccept(s)
    \/ \E s \in sessions : ContactsEffect(s)
    \/ \E s \in sessions, c \in ContactChannels : ContactChannelJoined(s, c)
    \/ \E s \in sessions : HandleNotice(s)
    \/ \E s \in sessions : \E task \in reloads[s] : FriendshipsQuery(s, task)
    \/ \E s \in sessions : \E task \in reloads[s] : ProfilesQuery(s, task)
    \/ \E s \in sessions : \E task \in reloads[s] : FriendsAnswer(s, task)
    \/ \E s \in sessions : \E task \in reloads[s] : RequestsQuery(s, task)
    \/ \E s \in sessions : \E task \in reloads[s] : RequestsAnswer(s, task)

SpecContacts == InitReads /\ [][NextContacts]_vars

----------------------------------------------------------------------------
(* Friend requests: properties *)

RequestsFor(table, sender, receiver) ==
    {r \in table : r.sender_id = sender /\ r.receiver_id = receiver}

StatusIn(table, rid) ==
    IF \E r \in table : r.id = rid
    THEN (CHOOSE r \in table : r.id = rid).status
    ELSE "none"

BothEdgesOnce(fs, a, b) == fs[<<a, b>>] = 1 /\ fs[<<b, a>>] = 1

\* C1: however the sends A -> B of one or several sessions interleave, the
\* table never holds two rows for the ordered pair (A, B); the send that finds
\* no row creates the one row, pending, and reports success; every send that
\* finds a row, pending, accepted or rejected, reports "Friend request already
\* sent" and leaves the table as it was.
C1_OneRequestPerPair ==
    /\ [](\A a \in Users, b \in Users : Cardinality(RequestsFor(friend_requests, a, b)) <= 1)
    /\ [][\A s \in sessions :
            SendInsert(s) =>
                LET a == UserOf(s)
                    b == sendTask[s]
                IN  /\ a # b
                    /\ Cardinality(RequestsFor(friend_requests', a, b)) = 1
                    /\ IF RequestsFor(friend_requests, a, b) = {}
                       THEN /\ \A r \in RequestsFor(friend_requests', a, b) : r.status = "pending"
                            /\ last'.toast = Toast("success", "Friend request sent!")
                       ELSE /\ friend_requests' = friend_requests
                            /\ last'.toast = Toast("error", "Friend request already sent")
       ]_vars

\* A second send for a pair whose request has already been answered was
\* turned down as a duplicate, while another session of the sender is still
\* between its lookup and its insert.
C1_Witness ==
    /\ last.op = "send"
    /\ last.toast = Toast("error", "Friend request already sent")
    /\ last.was \in {"accepted", "rejected"}
    /\ Cardinality(RequestsFor(friend_requests, last.by, last.arg)) = 1
    /\ \E s \in sessions : UserOf(s) = last.by /\ sendTask[s] = last.arg

\* C2: when the receiver accepts a pending request of A to B, the request is
\* accepted afterwards and the friendship rows between A and B are the two
\* rows (A, B) and (B, A), one of each.
C2_AcceptMakesBothEdges ==
    [][\A s \in sessions, r \in friend_requests :
          (acceptRequest(s, r.id) /\ r.status = "pending" /\ UserOf(s) = r.receiver_id) =>
              /\ StatusIn(friend_requests', r.id) = "accepted"
              /\ EdgesBetween(friendships', r.sender_id, r.receiver_id)
                     = {<<r.sender_id, r.receiver_id>>, <<r.receiver_id, r.sender_id>>}
              /\ BothEdgesOnce(friendships', r.sender_id, r.receiver_id)
      ]_vars

\* The receiver has just accepted a request that was pending.
C2_Witness ==
    /\ last.op = "accept"
    /\ last.was = "pending"
    /\ \E r \in friend_requests :
          /\ r.id = last.arg
          /\ r.receiver_id = last.by
          /\ r.status = "accepted"
          /\ BothEdgesOnce(friendships, r.sender_id, r.receiver_id)

\* C3: the status write and the two friendship rows of an accept are one
\* step: the state in which a request has become accepted from pending holds
\* both rows, and a step of acceptRequest that adds a friendship row leaves
\* its request accepted, never pending.
C3_AcceptIsAtomic ==
    [][/\ \A r \in friend_requests :
            (r.status = "pending" /\ StatusIn(friend_requests', r.id) = "accepted") =>
                /\ friendships'[<<r.sender_id, r.receiver_id>>] > 0
                /\ friendships'[<<r.receiver_id, r.sender_id>>] > 0
       /\ \A s \in sessions, r \in friend_requests :
            (acceptRequest(s, r.id) /\ friendships' # friendships) =>
                /\ r.status = "pending"
                /\ StatusIn(friend_requests', r.id) = "accepted"
      ]_vars

\* An accept of a pending request has just added friendship rows that were
\* not there before: no row between the two accounts was inserted directly.
C3_Witness ==
    /\ last.op = "accept"
    /\ last.was = "pending"
    /\ \E r \in friend_requests :
          /\ r.id = last.arg
          /\ r.status = "accepted"
          /\ friendships[<<r.sender_id, r.receiver_id>>] > 0
          /\ friendships[<<r.receiver_id, r.sender_id>>] > 0
          /\ \A q \in friend_requests : q.id # r.id => q.status # "accepted"

\* C4: accepted and rejected are terminal: no step changes the status of a
\* request that is accepted or rejected, so the only status changes are
\* pending -> accepted and pending -> rejected.
C4_TerminalStatuses ==
    [][\A r \in friend_requests :
          r.status \in {"accepted", "rejected"} => StatusIn(friend_requests', r.id) = r.status
      ]_vars

\* C5: acceptRequest or rejectRequest on a request that is not pending
\* reports an error and changes neither table.
C5_NotPendingIsAnError ==
    [][\A s \in sessions, r \in friend_requests :
          ((acceptRequest(s, r.id) \/ rejectRequest(s, r.id)) /\ r.status # "pending") =>
              /\ last'.toast.kind = "error"
              /\ UNCHANGED <<friend_requests, friendships>>
      ]_vars

\* C6: acceptRequest or rejectRequest by a session whose account is not the
\* request's receiver reports an error and changes neither table.
C6_NotReceiverIsForbidden ==
    [][\A s \in sessions, r \in friend_requests :
          ((acceptRequest(s, r.id) \/ rejectRequest(s, r.id)) /\ UserOf(s) # r.receiver_id) =>
              /\ last'.toast.kind = "error"
              /\ UNCHANGED <<friend_requests, friendships>>
      ]_vars

\* C7: the receiver's reject of a pending request leaves it rejected and the
\* friendships as they were; an accept of a rejected request reports an
\* error, leaves it rejected and adds no friendship row.
C7_RejectedStaysRejected ==
    [][\A s \in sessions, r \in friend_requests :
          /\ (rejectRequest(s, r.id) /\ r.status = "pending" /\ UserOf(s) = r.receiver_id) =>
                /\ StatusIn(friend_requests', r.id) = "rejected"
                /\ UNCHANGED friendships
          /\ (acceptRequest(s, r.id) /\ r.status = "rejected") =>
                /\ last'.toast.kind = "error"
                /\ StatusIn(friend_requests', r.id) = "rejected"
                /\ UNCHANGED friendships
      ]_vars

\* C8: a friendship row (X, Y) is only ever inserted by the step that takes a
\* request between X and Y from pending to accepted.
C8_EdgesOnlyByAccept ==
    [][\A p \in Users \X Users :
          friendships'[p] > friendships[p] =>
              \E r \in friend_requests :
                  /\ {r.sender_id, r.receiver_id} = {p[1], p[2]}
                  /\ r.status = "pending"
                  /\ StatusIn(friend_requests', r.id) = "accepted"
      ]_vars

\* C17: a send whose email resolves to no account, or to the sender's own
\* account, reports an error, creates no row and starts no insert; no row of
\* the table has the same sender and receiver.
C17_NotFoundAndSelfRequest ==
    /\ [](\A r \in friend_requests : r.sender_id # r.receiver_id)
    /\ [][\A s \in sessions, e \in SearchEmails \ {""} :
            (SendLookup(s, e) /\ ResolveEmail(e) \in {"none", UserOf(s)}) =>
                /\ UNCHANGED friend_requests
                /\ sendTask'[s] = NoTask
                /\ last'.toast =
                       IF ResolveEmail(e) = "none"
                       THEN Toast("error", "User not found")
                       ELSE Toast("error", "You cannot add yourself")
       ]_vars

\* An account that has a request of its own in the table has just been told
\* that it cannot add itself.
C17_Witness ==
    /\ last.op = "send"
    /\ last.arg = last.by
    /\ last.toast = Toast("error", "You cannot add yourself")
    /\ \E r \in friend_requests : r.sender_id = last.by
    /\ \A s \in sessions : UserOf(s) = last.by => sendTask[s] = NoTask

\* C19: a delete of the friendship row (A, B) by a session of A removes that
\* row and no other; by a session of any other account it removes nothing;
\* either way the requests and the messages stay as they are; and a row
\* (A, B) only ever disappears in a delete by a session of A.
C19_UnfriendOwnEdgeOnly ==
    [][/\ \A s \in sessions, u \in profiles, f \in profiles :
            DeleteFriendship(s, u, f) =>
                /\ UNCHANGED <<friend_requests, messages>>
                /\ \A p \in Users \X Users : p # <<u, f>> => friendships'[p] = friendships[p]
                /\ friendships'[<<u, f>>] = IF UserOf(s) = u THEN 0 ELSE friendships[<<u, f>>]
       /\ \A p \in Users \X Users :
            friendships'[p] < friendships[p] =>
                \E s \in sessions : UserOf(s) = p[1] /\ DeleteFriendship(s, p[1], p[2])
      ]_vars

\* An account has just deleted its row of an accepted friendship: its row is
\* gone, the friend's row and the accepted request are still there.
C19_Witness ==
    /\ last.op = "delete_friendship"
    /\ last.was = "edge"
    /\ last.by = last.arg[1]
    /\ last.arg[1] # last.arg[2]
    /\ friendships[last.arg] = 0
    /\ friendships[<<last.arg[2], last.arg[1]>>] = 1
    /\ \E r \in friend_requests :
          r.status = "accepted" /\ {r.sender_id, r.receiver_id} = {last.arg[1], last.arg[2]}

\* C22: the table never holds two rows for one ordered pair (owner, friend);
\* and the receiver's accept of a pending request between two accounts that
\* already have a friendship row, from the cross request's accept or from a
\* direct insert, reports success, leaves the request accepted and leaves
\* the two rows (A, B) and (B, A), one of each.
C22_AcceptIsIdempotent ==
    /\ [](\A p \in Users \X Users : friendships[p] <= 1)
    /\ [][\A s \in sessions, r \in friend_requests :
            (/\ acceptRequest(s, r.id)
             /\ r.status = "pending"
             /\ UserOf(s) = r.receiver_id
             /\ EdgesBetween(friendships, r.sender_id, r.receiver_id) # {}) =>
                /\ last'.toast = Toast("success", "Friend request accepted!")
                /\ StatusIn(friend_requests', r.id) = "accepted"
                /\ BothEdgesOnce(friendships', r.sender_id, r.receiver_id)
       ]_vars

\* The second of two cross requests has just been accepted: both are
\* accepted and the pair has its two rows, one of each.
C22_Witness ==
    /\ last.op = "accept"
    /\ last.was = "pending"
    /\ last.toast.kind = "success"
    /\ \E r, q \in friend_requests :
          /\ r.id = last.arg
          /\ r.receiver_id = last.by
          /\ q.sender_id = r.receiver_id /\ q.receiver_id = r.sender_id
          /\ r.status = "accepted" /\ q.status = "accepted"
          /\ BothEdgesOnce(friendships, r.sender_id, r.receiver_id)

----------------------------------------------------------------------------
(* Conversations: properties *)

Range(sq) == {sq[i] : i \in DOMAIN sq}

\* The rows of the conversation of a and b: {sender, receiver} = {a, b}.
ConversationIds(table, a, b) ==
    {m.id : m \in {x \in table : {x.sender_id, x.receiver_id} = {a, b}}}

SortedByCreatedAt(data) ==
    \A i, j \in DOMAIN data :
        i < j => MessageById(data[i]).created_at <= MessageById(data[j]).created_at

ReadIn(table, id) == (CHOOSE m \in table : m.id = id).read

\* C9: the select of load(A, B) returns each row of the conversation of A
\* and B once and no other row, in ascending order of created_at; and once
\* the call has returned, every row it returned whose receiver is A is read.
C9_LoadSortedAndRead ==
    /\ [][\A s \in sessions, i \in 1..MaxSelects :
            (i \in DOMAIN loads[s] /\ LoadQuery(s, i)) =>
                LET data == loads'[s][i].data
                IN  /\ Range(data) = ConversationIds(messages, UserOf(s), loads[s][i].friend)
                    /\ Len(data) = Cardinality(Range(data))
                    /\ SortedByCreatedAt(data)
       ]_vars
    /\ [](\A s \in sessions, i \in 1..MaxSelects :
            (i \in DOMAIN loads[s] /\ loads[s][i].pc = "done") =>
                \A id \in Range(loads[s][i].data) :
                    MessageById(id).receiver_id = UserOf(s) => MessageById(id).read)

\* A load has returned rows of both directions and of two timestamps, while
\* the table also holds a row of another conversation of the same account.
C9_Witness ==
    \E s \in sessions, i \in 1..MaxSelects :
        /\ i \in DOMAIN loads[s]
        /\ loads[s][i].pc = "done"
        /\ \E x, y \in Range(loads[s][i].data) :
              /\ MessageById(x).receiver_id = UserOf(s)
              /\ MessageById(y).sender_id = UserOf(s)
              /\ MessageById(x).created_at # MessageById(y).created_at
        /\ \E m \in messages :
              /\ UserOf(s) \in {m.sender_id, m.receiver_id}
              /\ m.id \notin Range(loads[s][i].data)

\* C10: a row's read flag never goes from true to false; it goes from false
\* to true only in a step of a session of the row's receiver; and neither the
\* load nor the stream callback of a session changes a row whose receiver is
\* another account.
C10_ReadOnlyByReceiver ==
    [][/\ \A m \in messages :
            /\ m.read => ReadIn(messages', m.id)
            /\ (~m.read /\ ReadIn(messages', m.id)) =>
                   \E s \in sessions :
                       /\ UserOf(s) = m.receiver_id
                       /\ \E i \in DOMAIN loads[s] : LoadMarkRead(s, i)
       /\ \A s \in sessions :
            (HandleInsert(s) \/ \E i \in DOMAIN loads[s] :
                                   LoadQuery(s, i) \/ LoadResponse(s, i) \/ LoadMarkRead(s, i)) =>
                \A m \in messages : m.receiver_id # UserOf(s) => m \in messages'
      ]_vars

\* A row has been marked read by its receiver's load, while a session of its
\* sender shows it and has finished a load of the same conversation.
C10_Witness ==
    \E m \in messages :
        /\ m.read
        /\ \E s \in sessions :
              /\ UserOf(s) = m.sender_id
              /\ m.id \in Range(view[s])
              /\ \E i \in DOMAIN loads[s] :
                    loads[s][i].pc = "done" /\ m.id \in Range(loads[s][i].data)

Count(sq, x) == Cardinality({i \in DOMAIN sq : sq[i] = x})

\* No loadMessages call of the session is between its start and its return.
LoadsDone(s) == \A i \in DOMAIN loads[s] : loads[s][i].pc = "done"

\* Nothing of the session's conversation is on its way: its loads have
\* returned, its channel is joined, no event waits and no insert is in flight.
Settled(s) ==
    /\ selectedFriend[s] # "none"
    /\ LoadsDone(s)
    /\ channel[s].joined
    /\ inbox[s] = <<>>
    /\ InFlightSends = {}

\* C11: when a session takes its own message back from its channel, and no
\* load of the session is under way, the list it shows afterwards holds the
\* message's id exactly once.
C11_SelfEchoOnce ==
    [][\A s \in sessions :
          (/\ HandleInsert(s)
           /\ MessageById(Head(inbox[s])).sender_id = UserOf(s)
           /\ LoadsDone(s)) =>
              Count(view'[s], Head(inbox[s])) = 1
      ]_vars

\* C12: the list a session shows never holds a message id twice.
C12_NoDuplicateIds ==
    \A s \in sessions : \A i, j \in DOMAIN view[s] : i # j => view[s][i] # view[s][j]

\* C13: a row of the selected conversation that the session shows stays shown
\* as long as the friend stays selected; and once nothing of the conversation
\* is on its way any more, the session shows every row of the conversation
\* the table holds.
C13_NoMessageLost ==
    /\ [][\A s \in sessions : \A id \in Range(view[s]) :
            (/\ selectedFriend[s] # "none"
             /\ selectedFriend'[s] = selectedFriend[s]
             /\ id \in ConversationIds(messages, UserOf(s), selectedFriend[s])) =>
                id \in Range(view'[s])
       ]_vars
    /\ [](\A s \in sessions :
            Settled(s) =>
                ConversationIds(messages, UserOf(s), selectedFriend[s]) \subseteq Range(view[s]))

\* C14: once the callback has taken a row addressed to the session's account
\* from the channel, and the session's loads have returned, the row is read in
\* the table: every row the session shows that is addressed to its account is.
C14_ReadOnArrival ==
    \A s \in sessions :
        (LoadsDone(s) /\ inbox[s] = <<>>) =>
            \A id \in Range(view[s]) :
                MessageById(id).receiver_id = UserOf(s) => MessageById(id).read

\* C15: a row the callback appends to the list belongs to the conversation
\* with the friend selected at that moment: after a switch from X to Y no
\* event of the pair (me, X) is appended.
C15_NoEventOfOldPair ==
    [][\A s \in sessions :
          HandleInsert(s) =>
              Head(inbox[s]) \in ConversationIds(messages, UserOf(s), selectedFriend[s])
      ]_vars

\* C23: while a session has a friend selected, every message of the list it
\* shows belongs to the conversation of its account and that friend: right
\* after a switch, while a load of the friend left is under way, and after
\* that load has returned.
C23_NoCrossTalk ==
    \A s \in sessions :
        selectedFriend[s] # "none" =>
            Range(view[s]) \subseteq
                ConversationIds(messages, UserOf(s), selectedFriend[s])

\* C18: a sendMessage whose text is blank after trimming writes nothing and
\* starts no insert; every row of the table has content that is not blank, and
\* every row a step adds holds the trimmed text of a send.
C18_NoBlankMessage ==
    /\ [](\A m \in messages : Trim(m.content) # <<>>)
    /\ [][/\ \A s \in sessions, text \in MessageTexts :
               (sendMessage(s, text) /\ Trim(text) = <<>>) => UNCHANGED <<messages, sending>>
          /\ \A m \in messages' \ messages : m.content = Trim(m.content)
       ]_vars

\* A send of blank text has just been turned away by a session that has a
\* friend selected and no insert in flight, and whose account has a row of
\* its own in the table.
C18_Witness ==
    /\ last.op = "send_message"
    /\ last.arg = "blank"
    /\ \E s \in sessions :
          /\ UserOf(s) = last.by
          /\ selectedFriend[s] # "none"
          /\ sending[s] = NoSend
          /\ \E m \in messages : m.sender_id = last.by /\ m.id # 1 /\ m.created_at > 0

----------------------------------------------------------------------------
(* Presence: properties *)

\* The session has been torn down and no other session of its account has
\* ever been live.
OnlySessionTornDown(s) ==
    /\ heartbeat[s] = "cleared"
    /\ \A r \in sessions : (r # s /\ UserOf(r) = UserOf(s)) => heartbeat[r] = "unset"

\* C20: once the only session of an account has been torn down, no write of
\* that session sets the account's status to online any more; and when none
\* of its writes is under way any more, the stored status is offline.
C20_OfflineAfterTeardown ==
    /\ [][\A s \in sessions :
            (OnlySessionTornDown(s) /\ PresenceWrite(s) /\ presence'[UserOf(s)] # presence[UserOf(s)]) =>
                presence'[UserOf(s)].status # "online"
       ]_vars
    /\ [](\A s \in sessions :
            (OnlySessionTornDown(s) /\ statusWrites[s] = {}) =>
                presence[UserOf(s)].status = "offline")

\* The sessions of an account whose interval is running.
LiveSessions(u) == {r \in sessions : UserOf(r) = u /\ heartbeat[r] = "set"}

----------------------------------------------------------------------------
(* Reads: properties *)

\* C16: a select of loadFriends, loadRequests or loadMessages that fails is
\* reported to the session that made the call as an error.
C16_ReadFailureSurfaced ==
    [][\A s \in sessions :
          (\/ \E task \in reloads[s] : ReloadFails(s, task)
           \/ \E i \in DOMAIN loads[s] : LoadFails(s, i)) =>
              /\ last' # last
              /\ last'.by = UserOf(s)
              /\ last'.toast.kind = "error"
      ]_vars

\* The session's contact list is at rest: its three channels are joined, no
\* loadFriends or loadRequests is under way and no event waits.
ContactsQuiet(s) ==
    /\ \A c \in ContactChannels : contactChannels[s][c] = "joined"
    /\ reloads[s] = {}
    /\ notices[s] = <<>>

\* C21: when a session's contact list is at rest, the friends it shows are
\* the accounts its user has a friendship row to, and the requests it shows
\* are the pending requests whose receiver is its user.
C21_ContactListConverges ==
    \A s \in sessions :
        ContactsQuiet(s) =>
            /\ {p.id : p \in friends[s]} = SelectFriendIds(UserOf(s))
            /\ friendRequests[s] = SelectPendingRequests(UserOf(s))

=============================================================================
